---- MODULE Spec2Model ----
(***************************************************************************)
(* Model of the dynamic abstract-type-inference engine:                    *)
(*   src/src/tag.rs         Tag                                            *)
(*   src/src/union_find.rs  UnionFind                                      *)
(*   src/src/site.rs        Site, Sites                                    *)
(*   src/src/ati.rs         ATI                                            *)
(*                                                                         *)
(* A Rust Vec used by index (index_to_set, parent, rank) is a function on  *)
(* 0..len-1, a HashMap is a function on its key set, Option<T> is None or  *)
(* Some(v), and a method taking &mut self is an operator returning the new *)
(* object next to the returned value.                                      *)
(***************************************************************************)
EXTENDS Integers, Sequences, FiniteSets, TLC

\* ---------------------------------------------------------------- bounds
\* Number of distinct tags handed to a UnionFind driven on its own and to
\* the index driven by minting and union_tags alone.
MaxAddr == 5
\* Number of distinct memory addresses the values of a program that uses
\* sites live at.
MaxVals == 2
\* Longest slice handed to ATI::union_tags.
MaxChain == 3
\* Most sites checked out (held by callers) and not yet checked in.
MaxHeld == 2
\* Most observations over all site instances that exist at one time.
MaxObs == 2
\* A program that works on one site, checked out by one caller at a time:
\* the addresses its values live at, and the longest log of the site.
MaxSiteVals == 3
MaxSiteObs == 3

Addrs == 1..MaxAddr
\* Variable names handed to observe_var / tracked, and site identifiers.
VarNames == {"x", "y"}
SiteIds == {"f", "g"}

\* ------------------------------------------------------ Rust containers
None == [some |-> FALSE]
Some(v) == [some |-> TRUE, val |-> v]
Unit == [unit |-> TRUE]
Panic == [panic |-> TRUE]

EmptyVec == <<>>
VecLen(v) == Cardinality(DOMAIN v)
VecPush(v, e) == [i \in 0..VecLen(v) |-> IF i < VecLen(v) THEN v[i] ELSE e]

EmptyMap == <<>>
MapInsert(m, k, v) == [x \in (DOMAIN m) \cup {k} |-> IF x = k THEN v ELSE m[x]]
MapRemove(m, k) == [x \in (DOMAIN m) \ {k} |-> m[x]]

\* ------------------------------------------------------------------ Tag
\* Tag::new formats the address of the value; the tag is that address.
Tag_new(value) == [addr |-> value]
Tags == {Tag_new(a) : a \in Addrs}

\* ------------------------------------------------------------ UnionFind
UnionFind_new ==
    [id_to_index |-> EmptyMap, index_to_set |-> EmptyVec,
     parent |-> EmptyVec, rank |-> EmptyVec]

\* introduce_tag without the contains_key test.
introduce_tag_nocheck(uf, id) ==
    LET index == VecLen(uf.parent)
    IN  [uf |-> [id_to_index |-> MapInsert(uf.id_to_index, id, index),
                 index_to_set |-> VecPush(uf.index_to_set, id),
                 parent |-> VecPush(uf.parent, index),
                 rank |-> VecPush(uf.rank, 0)],
         res |-> id]

introduce_tag(uf, id) ==
    IF id \in DOMAIN uf.id_to_index
    THEN [uf |-> uf, res |-> id]
    ELSE LET index == VecLen(uf.parent)
         IN  [uf |-> [id_to_index |-> MapInsert(uf.id_to_index, id, index),
                      index_to_set |-> VecPush(uf.index_to_set, id),
                      parent |-> VecPush(uf.parent, index),
                      rank |-> VecPush(uf.rank, 0)],
              res |-> id]

make_set(uf, var) == introduce_tag(uf, Tag_new(var))

get_index(uf, id) ==
    IF id \in DOMAIN uf.id_to_index THEN Some(uf.id_to_index[id]) ELSE None

\* Internal find with path compression: every index on the path from x to
\* its root is re-pointed at the root.
RECURSIVE find_index(_, _)
find_index(uf, x) ==
    IF uf.parent[x] # x
    THEN LET r == find_index(uf, uf.parent[x])
             uf2 == [r.uf EXCEPT !.parent[x] = r.res]
         IN  [uf |-> uf2, res |-> uf2.parent[x]]
    ELSE [uf |-> uf, res |-> uf.parent[x]]

\* find answering with the tag of the index it looked up, not of its root.
find_own_index(uf, tag) ==
    LET index == get_index(uf, tag)
    IN  IF ~index.some
        THEN [uf |-> uf, res |-> None]
        ELSE LET r == find_index(uf, index.val)
             IN  [uf |-> r.uf, res |-> Some(r.uf.index_to_set[index.val])]

find(uf, tag) ==
    LET index == get_index(uf, tag)
    IN  IF ~index.some
        THEN [uf |-> uf, res |-> None]
        ELSE LET r == find_index(uf, index.val)
             IN  [uf |-> r.uf, res |-> Some(r.uf.index_to_set[r.res])]

\* union_indices hanging y itself, not its root, under the root of x.
union_indices_no_root(uf, x, y) ==
    LET fx == find_index(uf, x)
        fy == find_index(fx.uf, y)
        x_root == fx.res
        y_root == fy.res
        u == fy.uf
    IN  IF x_root = y_root
        THEN [uf |-> u, res |-> x_root]
        ELSE [uf |-> [u EXCEPT !.parent[y] = x_root,
                               !.rank[x_root] = @ + 1],
              res |-> x_root]

\* union_indices returning the root that lost when the ranks are equal.
union_indices_loser(uf, x, y) ==
    LET fx == find_index(uf, x)
        fy == find_index(fx.uf, y)
        x_root == fx.res
        y_root == fy.res
        u == fy.uf
    IN  IF x_root = y_root
        THEN [uf |-> u, res |-> x_root]
        ELSE IF u.rank[x_root] < u.rank[y_root]
        THEN [uf |-> [u EXCEPT !.parent[x_root] = y_root], res |-> y_root]
        ELSE IF u.rank[x_root] > u.rank[y_root]
        THEN [uf |-> [u EXCEPT !.parent[y_root] = x_root], res |-> x_root]
        ELSE [uf |-> [u EXCEPT !.parent[y_root] = x_root,
                               !.rank[x_root] = @ + 1],
              res |-> y_root]

\* union_indices leaving the rank of the winner of a tie as it is.
union_indices_tie_no_rank(uf, x, y) ==
    LET fx == find_index(uf, x)
        fy == find_index(fx.uf, y)
        x_root == fx.res
        y_root == fy.res
        u == fy.uf
    IN  IF x_root = y_root
        THEN [uf |-> u, res |-> x_root]
        ELSE IF u.rank[x_root] < u.rank[y_root]
        THEN [uf |-> [u EXCEPT !.parent[x_root] = y_root], res |-> y_root]
        ELSE [uf |-> [u EXCEPT !.parent[y_root] = x_root], res |-> x_root]

\* Internal union by rank.
union_indices(uf, x, y) ==
    LET fx == find_index(uf, x)
        fy == find_index(fx.uf, y)
        x_root == fx.res
        y_root == fy.res
        u == fy.uf
    IN  IF x_root = y_root
        THEN [uf |-> u, res |-> x_root]
        ELSE IF u.rank[x_root] < u.rank[y_root]
        THEN [uf |-> [u EXCEPT !.parent[x_root] = y_root], res |-> y_root]
        ELSE IF u.rank[x_root] > u.rank[y_root]
        THEN [uf |-> [u EXCEPT !.parent[y_root] = x_root], res |-> x_root]
        ELSE [uf |-> [u EXCEPT !.parent[y_root] = x_root,
                               !.rank[x_root] = @ + 1],
              res |-> x_root]

union_tags(uf, t1, t2) ==
    LET i1 == get_index(uf, t1)
        i2 == get_index(uf, t2)
    IN  IF ~i1.some \/ ~i2.some
        THEN [uf |-> uf, res |-> None]
        ELSE LET r == union_indices(uf, i1.val, i2.val)
             IN  [uf |-> r.uf, res |-> Some(r.uf.index_to_set[r.res])]


\* ----------------------------------------------------------------- Site
Site_new(name) ==
    [type_uf |-> UnionFind_new, var_tags |-> EmptyMap,
     observed_var_tags |-> <<>>, name |-> name]

\* observe_var that also records the tag as the variable's class at once.
observe_var_eager(site, name, var_tag) ==
    [site EXCEPT !.observed_var_tags = Append(@, <<name, var_tag>>),
                 !.var_tags = MapInsert(@, name, var_tag)]

observe_var(site, name, var_tag) ==
    [site EXCEPT !.observed_var_tags = Append(@, <<name, var_tag>>)]

\* update_entry merging with the stored value of whichever variable the
\* map has, not of new_var.
update_entry_any_var(st, new_var, new_var_tag) ==
    LET f1 == find(st.value_uf, new_var_tag)
    IN  IF ~f1.res.some
        THEN [st EXCEPT !.panic = TRUE]
        ELSE
        LET it == introduce_tag(st.site.type_uf, f1.res.val)
            new_leader_tag == it.res
        IN  IF DOMAIN st.site.var_tags # {}
            THEN LET some_var == CHOOSE v \in DOMAIN st.site.var_tags : TRUE
                     f2 == find(f1.uf, st.site.var_tags[some_var])
                 IN  IF ~f2.res.some
                     THEN [site |-> [st.site EXCEPT !.type_uf = it.uf],
                           value_uf |-> f2.uf, panic |-> TRUE]
                     ELSE
                     LET merged == union_tags(it.uf, f2.res.val, new_leader_tag)
                     IN  IF ~merged.res.some
                         THEN [site |-> [st.site EXCEPT !.type_uf = merged.uf],
                               value_uf |-> f2.uf, panic |-> TRUE]
                         ELSE [site |-> [st.site EXCEPT
                                           !.type_uf = merged.uf,
                                           !.var_tags = MapInsert(@, new_var, merged.res.val)],
                               value_uf |-> f2.uf, panic |-> FALSE]
            ELSE [site |-> [st.site EXCEPT
                              !.type_uf = it.uf,
                              !.var_tags = MapInsert(@, new_var, new_leader_tag)],
                  value_uf |-> f1.uf, panic |-> FALSE]

\* One iteration of the loop of Site::update on the entry (new_var,
\* new_var_tag); st carries the site, the global index and whether an
\* unwrap() has hit None.
update_entry(st, new_var, new_var_tag) ==
    LET f1 == find(st.value_uf, new_var_tag)
    IN  IF ~f1.res.some
        THEN [st EXCEPT !.panic = TRUE]
        ELSE
        LET it == introduce_tag(st.site.type_uf, f1.res.val)
            new_leader_tag == it.res
        IN  IF new_var \in DOMAIN st.site.var_tags
            THEN LET f2 == find(f1.uf, st.site.var_tags[new_var])
                 IN  IF ~f2.res.some
                     THEN [site |-> [st.site EXCEPT !.type_uf = it.uf],
                           value_uf |-> f2.uf, panic |-> TRUE]
                     ELSE
                     LET merged == union_tags(it.uf, f2.res.val, new_leader_tag)
                     IN  IF ~merged.res.some
                         THEN [site |-> [st.site EXCEPT !.type_uf = merged.uf],
                               value_uf |-> f2.uf, panic |-> TRUE]
                         ELSE [site |-> [st.site EXCEPT
                                           !.type_uf = merged.uf,
                                           !.var_tags = MapInsert(@, new_var, merged.res.val)],
                               value_uf |-> f2.uf, panic |-> FALSE]
            ELSE [site |-> [st.site EXCEPT
                              !.type_uf = it.uf,
                              !.var_tags = MapInsert(@, new_var, new_leader_tag)],
                  value_uf |-> f1.uf, panic |-> FALSE]

\* The loop of Site::update from entry i on; it stops at the first panic.
\* The pending log itself is only read.
RECURSIVE update_from(_, _)
update_from(st, i) ==
    IF st.panic \/ i > Len(st.site.observed_var_tags)
    THEN st
    ELSE update_from(update_entry(st, st.site.observed_var_tags[i][1],
                                      st.site.observed_var_tags[i][2]),
                     i + 1)

update(site, uf) == update_from([site |-> site, value_uf |-> uf, panic |-> FALSE], 1)

\* report printing what was observed instead of what was committed.
Site_report_observed(site) ==
    [name |-> site.name,
     lines |-> {site.observed_var_tags[i] :
                    i \in 1..Len(site.observed_var_tags)}]

\* What Site::report prints: the header with the name, and one line per
\* entry of var_tags (a HashMap, so in no particular order).
Site_report(site) ==
    [name |-> site.name,
     lines |-> {<<v, site.var_tags[v]>> : v \in DOMAIN site.var_tags}]

\* ---------------------------------------------------------------- Sites
Sites_new == [locs |-> EmptyMap]

\* extract leaving the site it made for an absent id in the directory.
extract_inserting(sites, id) ==
    IF id \notin DOMAIN sites.locs
    THEN [sites |-> [sites EXCEPT !.locs = MapInsert(@, id, Site_new(id))],
          res |-> Site_new(id)]
    ELSE [sites |-> [sites EXCEPT !.locs = MapRemove(@, id)],
          res |-> sites.locs[id]]

\* extract handing out the stored site and keeping its entry.
extract_keeping(sites, id) ==
    IF id \notin DOMAIN sites.locs
    THEN [sites |-> sites, res |-> Site_new(id)]
    ELSE [sites |-> sites, res |-> sites.locs[id]]

extract(sites, id) ==
    IF id \notin DOMAIN sites.locs
    THEN [sites |-> sites, res |-> Site_new(id)]
    ELSE [sites |-> [sites EXCEPT !.locs = MapRemove(@, id)],
          res |-> sites.locs[id]]

\* stash keeping the site the directory already stores under the name.
stash_keep_stored(sites, site) ==
    IF site.name \in DOMAIN sites.locs
    THEN sites
    ELSE [sites EXCEPT !.locs = MapInsert(@, site.name, site)]

stash(sites, site) == [sites EXCEPT !.locs = MapInsert(@, site.name, site)]

Sites_report(sites) == {Site_report(sites.locs[id]) : id \in DOMAIN sites.locs}

\* ------------------------------------------------------------------ ATI
\* Every method takes the ATI as self and gives it back next to what it
\* returns; a Site passed as &mut or by value is an argument of its own.
ATI_new == [value_uf |-> UnionFind_new, sites |-> Sites_new]

ATI_untracked(self, v) ==
    LET m == make_set(self.value_uf, v)
    IN  [self |-> [self EXCEPT !.value_uf = m.uf], res |-> m.res]

\* tracked building the tag itself, without make_set on the index.
ATI_tracked_no_make_set(self, var_name, v, site) ==
    LET tag == Tag_new(v)
    IN  [self |-> self,
         site |-> observe_var(site, var_name, tag),
         res |-> tag]

ATI_tracked(self, var_name, v, site) ==
    LET m == make_set(self.value_uf, v)
        tag == m.res
    IN  [self |-> [self EXCEPT !.value_uf = m.uf],
         site |-> observe_var(site, var_name, tag),
         res |-> tag]

ATI_get_site(self, id) ==
    LET e == extract(self.sites, id)
    IN  [self |-> [self EXCEPT !.sites = e.sites], res |-> e.res]

\* site.update(&mut self.value_uf) and then self.sites.stash(site); a
\* panic in update leaves before the stash.
ATI_update_site(self, site) ==
    LET u == update(site, self.value_uf)
    IN  IF u.panic
        THEN [self |-> [self EXCEPT !.value_uf = u.value_uf], res |-> Panic]
        ELSE [self |-> [value_uf |-> u.value_uf,
                        sites |-> stash(self.sites, u.site)],
              res |-> Unit]

\* The loop over tags.chunks(2): disjoint pairs, not overlapping ones.
RECURSIVE union_chunks(_, _, _)
union_chunks(uf, tags, i) ==
    IF i + 1 > Len(tags)
    THEN uf
    ELSE union_chunks(union_tags(uf, tags[i], tags[i + 1]).uf, tags, i + 2)

\* for tags in tags.windows(2): the Option returned by union_tags is
\* dropped, and the method returns ().
RECURSIVE union_windows(_, _, _)
union_windows(uf, tags, i) ==
    IF i + 1 > Len(tags)
    THEN uf
    ELSE union_windows(union_tags(uf, tags[i], tags[i + 1]).uf, tags, i + 1)

\* union_tags merging the first two tags of the slice only.
ATI_union_tags_first_pair(self, tags) ==
    [self |-> [self EXCEPT !.value_uf =
                  IF Len(tags) >= 2
                  THEN union_tags(@, tags[1], tags[2]).uf
                  ELSE @],
     res |-> Unit]

ATI_union_tags(self, tags) ==
    [self |-> [self EXCEPT !.value_uf = union_windows(@, tags, 1)],
     res |-> Unit]

ATI_report(self) == Sites_report(self.sites)

\* ------------------------------------------------ reading a UnionFind
\* Tags introduced so far.
Known(uf) == DOMAIN uf.id_to_index

\* Root of index i, following parent without compressing; at most one
\* step per element.
RECURSIVE RootN(_, _, _)
RootN(uf, i, n) ==
    IF n = 0 \/ uf.parent[i] = i THEN i ELSE RootN(uf, uf.parent[i], n - 1)
Root(uf, i) == RootN(uf, i, VecLen(uf.parent))

\* The members of t's class, and the partition of the introduced tags.
ClassOf(uf, t) ==
    {u \in Known(uf) : Root(uf, uf.id_to_index[u]) = Root(uf, uf.id_to_index[t])}
Partition(uf) == {ClassOf(uf, t) : t \in Known(uf)}

\* find(a) == find(b), as two successive calls, both succeeding.
SameLeader(uf, a, b) ==
    LET fa == find(uf, a)
        fb == find(fa.uf, b)
    IN  fa.res.some /\ fa.res = fb.res

\* ----------------------------------------------------------------- state
VARIABLES
    value_uf,   \* ATI.value_uf: the global index
    locs,       \* ATI.sites.locs: site id -> Site stored in the directory
    held,       \* Sites moved out to callers by get_site, not yet stashed
    panicked,   \* an unwrap() on None aborted the run
    pc          \* the statement of main (src/src/main.rs) that runs next

vars == <<value_uf, locs, held, panicked, pc>>

Init ==
    /\ value_uf = ATI_new.value_uf
    /\ locs = ATI_new.sites.locs
    /\ held = <<>>
    /\ panicked = FALSE
    /\ pc = 1

\* Addresses a caller can hand in. Tags are opaque, so which unused address
\* the next new value lives at makes no difference: it is the lowest unused
\* one, which also stands for every tag that was never introduced.
InAddrs == {a \in Addrs : a <= Cardinality(Known(value_uf)) + 1}
InTags == {Tag_new(a) : a \in InAddrs}

\* ------------------------------------------- UnionFind called on its own
MakeSet(a) ==
    /\ ~panicked
    /\ value_uf' = make_set(value_uf, a).uf
    /\ UNCHANGED <<locs, held, panicked>>
    /\ UNCHANGED pc

IntroduceTag(t) ==
    /\ ~panicked
    /\ value_uf' = introduce_tag(value_uf, t).uf
    /\ UNCHANGED <<locs, held, panicked>>
    /\ UNCHANGED pc

Find(t) ==
    /\ ~panicked
    /\ value_uf' = find(value_uf, t).uf
    /\ UNCHANGED <<locs, held, panicked>>
    /\ UNCHANGED pc

UnionTags(t1, t2) ==
    /\ ~panicked
    /\ value_uf' = union_tags(value_uf, t1, t2).uf
    /\ UNCHANGED <<locs, held, panicked>>
    /\ UNCHANGED pc

NextUF ==
    \/ \E a \in InAddrs : MakeSet(a)
    \/ \E t \in InTags : IntroduceTag(t)
    \/ \E t \in InTags : Find(t)
    \/ \E t1, t2 \in InTags : UnionTags(t1, t2)

\* A UnionFind driven through its public methods only.
SpecUF == Init /\ [][NextUF]_vars

\* -------------------------------------------------- the ATI, as callers
\* use it (src/src/main.rs): mint tags, check sites out, observe, record
\* interactions, commit, report.
Self == [value_uf |-> value_uf, sites |-> [locs |-> locs]]

RemoveAt(s, h) == [i \in 1..(Len(s) - 1) |-> IF i < h THEN s[i] ELSE s[i + 1]]

RECURSIVE SumObs(_)
SumObs(sites) ==
    IF sites = <<>> THEN 0
    ELSE Len(Head(sites).observed_var_tags) + SumObs(Tail(sites))

RECURSIVE SetToSeq(_)
SetToSeq(S) ==
    IF S = {} THEN <<>>
    ELSE LET e == CHOOSE e \in S : TRUE IN <<e>> \o SetToSeq(S \ {e})

\* Observations in all site instances that exist now.
TotalObs == SumObs(held) + SumObs(SetToSeq({locs[id] : id \in DOMAIN locs}))

\* The addresses a program that uses sites mints tags for, as InAddrs, and
\* the tags it passes on: those, and one that it never minted.
ValAddrs == {a \in InAddrs : a <= MaxVals}
ValTags == {Tag_new(a) : a \in {b \in InAddrs : b <= MaxVals + 1}}

\* The slices a caller passes to ATI::union_tags.
Chains(T) == UNION {[1..n -> T] : n \in 0..MaxChain}

Untracked(a) ==
    /\ ~panicked
    /\ LET r == ATI_untracked(Self, a)
       IN  /\ value_uf' = r.self.value_uf
           /\ locs' = r.self.sites.locs
    /\ UNCHANGED <<held, panicked>>
    /\ UNCHANGED pc

Tracked(h, var_name, a) ==
    /\ ~panicked
    /\ TotalObs < MaxObs
    /\ LET r == ATI_tracked(Self, var_name, a, held[h])
       IN  /\ value_uf' = r.self.value_uf
           /\ locs' = r.self.sites.locs
           /\ held' = [held EXCEPT ![h] = r.site]
    /\ UNCHANGED panicked
    /\ UNCHANGED pc

ObserveVar(h, name, t) ==
    /\ ~panicked
    /\ TotalObs < MaxObs
    /\ held' = [held EXCEPT ![h] = observe_var(held[h], name, t)]
    /\ UNCHANGED <<value_uf, locs, panicked>>
    /\ UNCHANGED pc

GetSite(id) ==
    /\ ~panicked
    /\ Len(held) < MaxHeld
    /\ LET r == ATI_get_site(Self, id)
       IN  /\ value_uf' = r.self.value_uf
           /\ locs' = r.self.sites.locs
           /\ held' = Append(held, r.res)
    /\ UNCHANGED panicked
    /\ UNCHANGED pc

\* The site is moved into update_site: the caller no longer holds it,
\* whether the call returns or panics.
UpdateSite(h) ==
    /\ ~panicked
    /\ LET r == ATI_update_site(Self, held[h])
       IN  /\ value_uf' = r.self.value_uf
           /\ locs' = r.self.sites.locs
           /\ panicked' = (r.res = Panic)
    /\ held' = RemoveAt(held, h)
    /\ UNCHANGED pc

RecordInteraction(tags) ==
    /\ ~panicked
    /\ LET r == ATI_union_tags(Self, tags)
       IN  /\ value_uf' = r.self.value_uf
           /\ locs' = r.self.sites.locs
    /\ UNCHANGED <<held, panicked>>
    /\ UNCHANGED pc

\* report takes &self and prints; nothing of the state is written.
Report ==
    /\ ~panicked
    /\ UNCHANGED <<value_uf, locs, held, panicked>>
    /\ UNCHANGED pc

Next ==
    \/ \E a \in ValAddrs : Untracked(a)
    \/ \E h \in 1..Len(held), n \in VarNames, a \in ValAddrs : Tracked(h, n, a)
    \/ \E h \in 1..Len(held), n \in VarNames, t \in ValTags : ObserveVar(h, n, t)
    \/ \E id \in SiteIds : GetSite(id)
    \/ \E h \in 1..Len(held) : UpdateSite(h)
    \/ \E tags \in Chains(ValTags) : RecordInteraction(tags)
    \/ Report

\* A program that uses the whole ATI.
Spec == Init /\ [][Next]_vars

NextIndex ==
    \/ \E a \in InAddrs : Untracked(a)
    \/ \E tags \in Chains(InTags) : RecordInteraction(tags)

\* The global index alone, driven by minting and ATI::union_tags.
SpecIndex == Init /\ [][NextIndex]_vars

\* ------------------------------------------- one site, one caller
\* The call pattern of one instrumented function (src/src/main.rs): values
\* are minted, the function's site is checked out, variables are observed
\* with minted tags, interactions are recorded, and the site is committed
\* before it is checked out again.
TheSite == CHOOSE id \in SiteIds : TRUE
SiteAddrs == {a \in InAddrs : a <= MaxSiteVals}

ObserveAtSite(h, name, t) ==
    /\ ~panicked
    /\ Len(held[h].observed_var_tags) < MaxSiteObs
    /\ held' = [held EXCEPT ![h] = observe_var(held[h], name, t)]
    /\ UNCHANGED <<value_uf, locs, panicked>>
    /\ UNCHANGED pc

NextSite ==
    \/ \E a \in SiteAddrs : Untracked(a)
    \/ held = <<>> /\ GetSite(TheSite)
    \/ \E h \in 1..Len(held), n \in VarNames, t \in Known(value_uf) :
          ObserveAtSite(h, n, t)
    \/ \E t1, t2 \in Known(value_uf) : RecordInteraction(<<t1, t2>>)
    \/ \E h \in 1..Len(held) : UpdateSite(h)

SpecSite == Init /\ [][NextSite]_vars

\* ------------------------------------------------ the program of main
\* main (src/src/main.rs:122-176) up to its third call of doubled_func,
\* then its update_site and report; the calls of complex_func and
\* uses_structs, which work on other sites, are left out. A tag is the
\* address of the value: the locals of main are alive together, at the
\* addresses MainAddr; a local of doubled_func lives in the slot that the
\* same local had in an earlier call or in a new one.
MainAddr == [a1 |-> 1, b1 |-> 2, a2 |-> 3, b2 |-> 4, a3 |-> 5, b3 |-> 6,
             iterations |-> 7]
FrameBase == 8

\* An operand: a local of the running doubled_func, or a value of main.
Loc(name) == [frame |-> TRUE, name |-> name, addr |-> 0]
Arg(name) == [frame |-> FALSE, name |-> name, addr |-> MainAddr[name]]

I_get_site(id) == [op |-> "get_site", id |-> id]
I_tracked(id, name, v) == [op |-> "tracked", id |-> id, name |-> name, v |-> v]
I_untracked(v) == [op |-> "untracked", v |-> v]
I_observe(id, name, v) == [op |-> "observe_var", id |-> id, name |-> name, v |-> v]
I_union(vs) == [op |-> "union_tags", vs |-> vs]
I_update_site(id) == [op |-> "update_site", id |-> id]
I_report == [op |-> "report"]

\* doubled_func(x, x_tag, y, y_tag, ati), src/src/main.rs:182-232; the
\* branch test > 300 is taken in the third call only (2 + 300).
doubled_func(x, y, taken) ==
    <<I_get_site("doubled_func"),
      I_observe("doubled_func", "x", Arg(x)),
      I_observe("doubled_func", "y", Arg(y)),
      I_tracked("doubled_func", "a", Loc("a")),
      I_tracked("doubled_func", "b", Loc("b")),
      I_tracked("doubled_func", "result", Loc("result")),
      I_union(<<Loc("a"), Arg(x), Loc("result")>>),
      I_tracked("doubled_func", "test", Loc("test")),
      I_union(<<Loc("b"), Arg(y), Loc("test")>>)>>
    \o (IF taken
        THEN <<I_tracked("doubled_func", "merged", Loc("merged"))>>
        ELSE <<>>)
    \o <<I_update_site("doubled_func")>>

Prog ==
    <<I_get_site("main"),
      I_tracked("main", "a1", Arg("a1")),
      I_tracked("main", "b1", Arg("b1"))>>
    \o doubled_func("a1", "b1", FALSE)
    \o <<I_tracked("main", "a2", Arg("a2")),
         I_tracked("main", "b2", Arg("b2"))>>
    \o doubled_func("a2", "b2", FALSE)
    \o <<I_untracked(Arg("a3")), I_untracked(Arg("b3"))>>
    \o doubled_func("a3", "b3", TRUE)
    \o <<I_tracked("main", "iterations", Arg("iterations")),
         I_update_site("main"),
         I_report>>

\* The site that the running function got from get_site(id).
HeldIdx(id) == CHOOSE h \in 1..Len(held) : held[h].name = id

\* What the site of the running doubled_func observed under a name.
Observed(name) ==
    LET log == held[HeldIdx("doubled_func")].observed_var_tags
    IN  {log[i][2] : i \in {j \in 1..Len(log) : log[j][1] = name}}

\* The address of an operand that is about to be minted.
NewSlot ==
    FrameBase + Cardinality({t \in Known(value_uf) : t.addr >= FrameBase})
AddrChoices(v) ==
    IF v.frame
    THEN {t.addr : t \in Observed(v.name)} \cup {NewSlot}
    ELSE {v.addr}

\* The tag variable of an operand: a local was minted by the last tracked
\* of its name.
TagOf(v) ==
    IF v.frame
    THEN LET log == held[HeldIdx("doubled_func")].observed_var_tags
             last == CHOOSE i \in 1..Len(log) :
                        /\ log[i][1] = v.name
                        /\ \A j \in (i + 1)..Len(log) : log[j][1] # v.name
         IN  log[last][2]
    ELSE Tag_new(v.addr)

AtPc(op) == ~panicked /\ pc <= Len(Prog) /\ Prog[pc].op = op

MainGetSite ==
    /\ AtPc("get_site")
    /\ LET r == ATI_get_site(Self, Prog[pc].id)
       IN  /\ value_uf' = r.self.value_uf
           /\ locs' = r.self.sites.locs
           /\ held' = Append(held, r.res)
    /\ pc' = pc + 1
    /\ UNCHANGED panicked

MainTracked ==
    /\ AtPc("tracked")
    /\ \E a \in AddrChoices(Prog[pc].v) :
          LET h == HeldIdx(Prog[pc].id)
              r == ATI_tracked(Self, Prog[pc].name, a, held[h])
          IN  /\ value_uf' = r.self.value_uf
              /\ locs' = r.self.sites.locs
              /\ held' = [held EXCEPT ![h] = r.site]
    /\ pc' = pc + 1
    /\ UNCHANGED panicked

MainUntracked ==
    /\ AtPc("untracked")
    /\ LET r == ATI_untracked(Self, Prog[pc].v.addr)
       IN  /\ value_uf' = r.self.value_uf
           /\ locs' = r.self.sites.locs
    /\ pc' = pc + 1
    /\ UNCHANGED <<held, panicked>>

MainObserve ==
    /\ AtPc("observe_var")
    /\ LET h == HeldIdx(Prog[pc].id)
       IN  held' = [held EXCEPT
                      ![h] = observe_var(@, Prog[pc].name, TagOf(Prog[pc].v))]
    /\ pc' = pc + 1
    /\ UNCHANGED <<value_uf, locs, panicked>>

MainUnion ==
    /\ AtPc("union_tags")
    /\ LET vs == Prog[pc].vs
           r == ATI_union_tags(Self, [i \in 1..Len(vs) |-> TagOf(vs[i])])
       IN  /\ value_uf' = r.self.value_uf
           /\ locs' = r.self.sites.locs
    /\ pc' = pc + 1
    /\ UNCHANGED <<held, panicked>>

MainUpdateSite ==
    /\ AtPc("update_site")
    /\ LET h == HeldIdx(Prog[pc].id)
           r == ATI_update_site(Self, held[h])
       IN  /\ value_uf' = r.self.value_uf
           /\ locs' = r.self.sites.locs
           /\ panicked' = (r.res = Panic)
           /\ held' = RemoveAt(held, h)
    /\ pc' = pc + 1

MainReport ==
    /\ AtPc("report")
    /\ pc' = pc + 1
    /\ UNCHANGED <<value_uf, locs, held, panicked>>

NextMain ==
    \/ MainGetSite
    \/ MainTracked
    \/ MainUntracked
    \/ MainObserve
    \/ MainUnion
    \/ MainUpdateSite
    \/ MainReport

SpecMain == Init /\ [][NextMain]_vars

\* ---------------------------------------------------------------- C1
\* C1: the index only coarsens. Two tags for which find returns the same
\* leader before a step have the same leader after it, and once
\* union_tags(a, b) has succeeded find(a) == find(b).
C1_Monotonic ==
    /\ [](\A a, b \in Tags :
            LET r == union_tags(value_uf, a, b)
            IN  r.res.some => SameLeader(r.uf, a, b))
    /\ [][\A a, b \in Known(value_uf) :
            SameLeader(value_uf, a, b) => SameLeader(value_uf', a, b)]_vars

\* Three different tags that two unions have put in one class.
C1_Witness ==
    \E a, b, c \in Known(value_uf) :
        /\ Cardinality({a, b, c}) = 3
        /\ SameLeader(value_uf, a, b)
        /\ SameLeader(value_uf, b, c)

\* ---------------------------------------------------------------- C2
\* C2: union_tags(a, b) on two introduced tags makes the class of a the
\* union of the two former classes, leaves every other class alone and
\* returns the leader of the merged class; with a tag that was never
\* introduced it returns None and changes nothing.
C2_UnionPost(a, b) ==
    LET r == union_tags(value_uf, a, b)
    IN  IF a \in Known(value_uf) /\ b \in Known(value_uf)
        THEN LET merged == ClassOf(value_uf, a) \cup ClassOf(value_uf, b)
             IN  /\ Known(r.uf) = Known(value_uf)
                 /\ ClassOf(r.uf, a) = merged
                 /\ \A c \in Known(value_uf) \ merged :
                       ClassOf(r.uf, c) = ClassOf(value_uf, c)
                 /\ r.res.some
                 /\ r.res.val \in merged
                 /\ \A m \in merged : find(r.uf, m).res = r.res
        ELSE /\ r.res = None
             /\ r.uf = value_uf

C2_UnionTags == \A a, b \in Tags : C2_UnionPost(a, b)

\* Unions have made a class of two or more tags next to at least two
\* other classes, and some tag was never introduced: the next union_tags
\* merges two classes and leaves a third alone, or fails.
C2_Witness ==
    /\ Known(value_uf) # Tags
    /\ \E c \in Partition(value_uf) : Cardinality(c) >= 2
    /\ Cardinality(Partition(value_uf)) >= 3

\* ---------------------------------------------------------------- C3
\* C3: find(t) returns None exactly for a tag never introduced; otherwise
\* it returns a member l of t's class with find(l) == l, the same l for
\* every member of the class, and the partition is as before.
C3_FindPost(t) ==
    LET r == find(value_uf, t)
    IN  /\ r.res = None <=> t \notin Known(value_uf)
        /\ t \in Known(value_uf) =>
              /\ r.res.some
              /\ r.res.val \in ClassOf(value_uf, t)
              /\ find(r.uf, r.res.val).res = r.res
              /\ \A m \in ClassOf(value_uf, t) :
                    /\ find(value_uf, m).res = r.res
                    /\ find(r.uf, m).res = r.res
              /\ Partition(r.uf) = Partition(value_uf)

C3_Find == \A t \in Tags : C3_FindPost(t)

\* A tag two steps below its root, so that find(t) compresses its path,
\* next to a tag that was never introduced.
C3_Witness ==
    /\ Known(value_uf) # Tags
    /\ \E t \in Known(value_uf) :
          LET i == value_uf.id_to_index[t]
              p == value_uf.parent[i]
          IN  /\ p # i
              /\ value_uf.parent[p] # p
              /\ find(value_uf, t).uf # value_uf

\* ---------------------------------------------------------------- C4
\* C4: introduce_tag(t) of a new tag adds the singleton class {t};
\* introduce_tag(t) of a known tag returns t and leaves the classes and
\* their number as they were.
C4_IntroducePost(t) ==
    LET r == introduce_tag(value_uf, t)
    IN  /\ r.res = t
        /\ IF t \in Known(value_uf)
           THEN /\ Partition(r.uf) = Partition(value_uf)
                /\ Cardinality(Partition(r.uf)) = Cardinality(Partition(value_uf))
                /\ Known(r.uf) = Known(value_uf)
           ELSE /\ Partition(r.uf) = Partition(value_uf) \cup {{t}}
                /\ Known(r.uf) = Known(value_uf) \cup {t}

C4_IdempotentIntroduce == \A t \in Tags : C4_IntroducePost(t)

\* A known tag that unions have merged with another one, and a tag that
\* is still new.
C4_Witness ==
    /\ Known(value_uf) # Tags
    /\ \E t \in Known(value_uf) : Cardinality(ClassOf(value_uf, t)) >= 2

\* ---------------------------------------------------------------- C5
\* Unioning every pair tags[i], tags[j], i < j, of the slice.
RECURSIVE UnionPairs(_, _, _, _)
UnionPairs(uf, tags, i, j) ==
    IF i >= Len(tags) THEN uf
    ELSE IF j > Len(tags) THEN UnionPairs(uf, tags, i + 1, i + 2)
    ELSE UnionPairs(union_tags(uf, tags[i], tags[j]).uf, tags, i, j + 1)

\* C5: on a slice of introduced tags ATI::union_tags, which unions the
\* adjacent pairs only, leaves the partition that unioning every pair
\* leaves; a slice of length 0 or 1 changes nothing.
C5_ChainIsAllPairs ==
    \A tags \in Chains(Known(value_uf)) :
        LET r == ATI_union_tags(Self, tags)
        IN  /\ Partition(r.self.value_uf) = Partition(UnionPairs(value_uf, tags, 1, 2))
            /\ Known(r.self.value_uf) = Known(value_uf)
            /\ Len(tags) < 2 => r.self = Self

\* A class of three tags that chains have built, next to two more classes:
\* slices of three tags of three classes, of two, and of one class exist.
C5_Witness ==
    /\ \E c \in Partition(value_uf) : Cardinality(c) >= 3
    /\ Cardinality(Partition(value_uf)) >= 3

\* ---------------------------------------------------------------- C6
\* The slice names a tag that was never introduced into the index.
HasUnknown(tags) == \E i \in 1..Len(tags) : tags[i] \notin Known(value_uf)
\* The error outcome the caller would be given.
UnknownTag == [err |-> "UnknownTag"]

\* C6: ATI::union_tags on a slice of two or more tags, one of them never
\* introduced, ends in the UnknownTag error outcome.
C6_UnknownTagSurfaced ==
    \A tags \in Chains(Tags) :
        (Len(tags) >= 2 /\ HasUnknown(tags)) =>
            ATI_union_tags(Self, tags).res = UnknownTag

\* ---------------------------------------------------------------- C7
\* C7: ATI::union_tags on a slice that names a tag never introduced,
\* wherever it stands, leaves the partition of the index as it was.
C7_UnchangedOnUnknownTag ==
    \A tags \in Chains(Tags) :
        HasUnknown(tags) =>
            Partition(ATI_union_tags(Self, tags).self.value_uf) = Partition(value_uf)

\* ---------------------------------------------------------------- C8
\* C8: the tag untracked or tracked returns for a value is none of the
\* tags the earlier mint calls returned, and it is alone in its class.
C8_FreshTag(r) ==
    /\ r.res \notin Known(value_uf)
    /\ ClassOf(r.self.value_uf, r.res) = {r.res}

C8_TagsUnique ==
    /\ \A a \in ValAddrs : C8_FreshTag(ATI_untracked(Self, a))
    /\ \A h \in 1..Len(held), n \in VarNames, a \in ValAddrs :
          C8_FreshTag(ATI_tracked(Self, n, a, held[h]))

\* ---------------------------------------------------------------- C9
\* C9: the tag untracked(v) or tracked(name, v, site) returns is found in
\* the index afterwards; untracked leaves the directory as it was; tracked
\* appends the one entry (name, tag) to the pending log of the site it was
\* given and changes nothing else of that site nor of the directory.
C9_Minting ==
    /\ \A a \in ValAddrs :
          LET r == ATI_untracked(Self, a)
          IN  /\ find(r.self.value_uf, r.res).res.some
              /\ r.self.sites = Self.sites
    /\ \A h \in 1..Len(held), n \in VarNames, a \in ValAddrs :
          LET r == ATI_tracked(Self, n, a, held[h])
          IN  /\ find(r.self.value_uf, r.res).res.some
              /\ r.self.sites = Self.sites
              /\ r.site = [held[h] EXCEPT
                             !.observed_var_tags = Append(@, <<n, r.res>>)]

\* A checked-out site that already has a pending entry, while the
\* directory stores a committed site and an address is still unused.
C9_Witness ==
    /\ \E h \in 1..Len(held) : Len(held[h].observed_var_tags) >= 1
    /\ \E id \in DOMAIN locs : DOMAIN locs[id].var_tags # {}
    /\ \E a \in ValAddrs : Tag_new(a) \notin Known(value_uf)

\* --------------------------------------------------------------- C10
\* C10: observe_var only appends (name, tag) to the pending log, for tags
\* never introduced too: the committed map, the local partition and the
\* name of the site stay, and a step that is an observe_var changes
\* neither the index, nor the directory, nor what report prints.
C10_ObserveVarPending ==
    /\ [](\A h \in 1..Len(held), n \in VarNames, t \in Tags :
            observe_var(held[h], n, t) =
                [held[h] EXCEPT !.observed_var_tags = Append(@, <<n, t>>)])
    /\ [][\A h \in 1..Len(held), n \in VarNames, t \in Tags :
            ObserveVar(h, n, t) =>
                /\ value_uf' = value_uf
                /\ locs' = locs
                /\ ATI_report(Self)' = ATI_report(Self)
                /\ held'[h].var_tags = held[h].var_tags
                /\ held'[h].type_uf = held[h].type_uf
                /\ \A k \in 1..Len(held) : k # h => held'[k] = held[k]]_vars

\* A site that was committed, checked out again and then observed with a
\* tag the index does not know, while the directory stores another site.
C10_Witness ==
    /\ \E h \in 1..Len(held) :
          /\ DOMAIN held[h].var_tags # {}
          /\ Len(held[h].observed_var_tags) >= 2
          /\ \E i \in 1..Len(held[h].observed_var_tags) :
                held[h].observed_var_tags[i][2] \notin Known(value_uf)
    /\ DOMAIN locs # {}

\* --------------------------------------------------------------- C11
\* C11: a commit clears the pending log. When update_site returns, the
\* site it stored has an empty pending log, so that a later commit of the
\* site processes only what was observed since.
C11_CommitClearsLog ==
    \A h \in 1..Len(held) :
        LET r == ATI_update_site(Self, held[h])
        IN  r.res = Unit =>
                r.self.sites.locs[held[h].name].observed_var_tags = <<>>

\* --------------------------------------------------------------- C12
\* C12: the commit of a site with a never-introduced tag in its pending
\* log returns the UnknownTag error to the caller of update_site; the run
\* is not aborted.
HasUnknownPending(site) ==
    \E i \in 1..Len(site.observed_var_tags) :
        site.observed_var_tags[i][2] \notin Known(value_uf)

C12_CommitUnknownTagIsErr ==
    \A h \in 1..Len(held) :
        HasUnknownPending(held[h]) =>
            LET r == ATI_update_site(Self, held[h])
            IN  r.res # Panic /\ r.res = UnknownTag

\* --------------------------------------------------------------- C13
\* C13: retroactive coarsening. A site observes v, which it has not seen
\* before, with t1 and is committed (commit 1), t1 and t2 are unioned in
\* the index, the site observes v with t2 and is committed again
\* (commit 2). Then the class recorded for v is
\* in the index class of t1 and of t2, and its class in the local
\* partition of the site holds the leader recorded for v at commit 1 and
\* the leader recorded at commit 2.
NotObserved(s, v) ==
    /\ v \notin DOMAIN s.var_tags
    /\ \A i \in 1..Len(s.observed_var_tags) : s.observed_var_tags[i][1] # v

C13_Commit1(s, v, t1) == update(observe_var(s, v, t1), value_uf)
C13_Union(s, v, t1, t2) ==
    ATI_union_tags([value_uf |-> C13_Commit1(s, v, t1).value_uf,
                    sites |-> Self.sites], <<t1, t2>>).self.value_uf
C13_Commit2(s, v, t1, t2) ==
    update(observe_var(C13_Commit1(s, v, t1).site, v, t2),
           C13_Union(s, v, t1, t2))

C13_RetroactiveCoarsening ==
    \A h \in 1..Len(held), v \in VarNames, t1, t2 \in Known(value_uf) :
        LET c1 == C13_Commit1(held[h], v, t1)
            c2 == C13_Commit2(held[h], v, t1, t2)
        IN  (NotObserved(held[h], v) /\ ~c1.panic /\ ~c2.panic) =>
                LET l1 == c1.site.var_tags[v]
                    l2 == c2.site.var_tags[v]
                IN  /\ SameLeader(c2.value_uf, l2, t1)
                    /\ SameLeader(c2.value_uf, l2, t2)
                    /\ {l1, l2} \subseteq ClassOf(c2.site.type_uf, l2)

\* --------------------------------------------------------------- C14
\* C14: commit order-independence. For a site that was not committed yet
\* and a fixed index, one commit of the pending observations in any order
\* gives the same pairs of variables recorded with equal class values.
EqPairs(var_tags) ==
    {p \in (DOMAIN var_tags) \X (DOMAIN var_tags) :
        var_tags[p[1]] = var_tags[p[2]]}

Perms(n) == {p \in [1..n -> 1..n] : \A i, j \in 1..n : p[i] = p[j] => i = j}

Reordered(site, p) ==
    [site EXCEPT !.observed_var_tags = [i \in 1..Len(@) |-> @[p[i]]]]

C14_CommitOrderIndependent ==
    \A h \in 1..Len(held) :
        (held[h].var_tags = EmptyMap /\ held[h].type_uf = UnionFind_new) =>
            \A p \in Perms(Len(held[h].observed_var_tags)) :
                LET u == update(held[h], value_uf)
                    w == update(Reordered(held[h], p), value_uf)
                IN  /\ u.panic = w.panic
                    /\ ~u.panic =>
                          EqPairs(u.site.var_tags) = EqPairs(w.site.var_tags)

\* --------------------------------------------------------------- C15
\* C15: the committed map only coarsens. Two variables that the committed
\* map of a site gives the same class value (after a commit of the site)
\* have the same class value in the map that the next commit of the site
\* stores, and so after every later commit.
C15_MapOnlyCoarsens ==
    \A h \in 1..Len(held) :
        LET r == ATI_update_site(Self, held[h])
        IN  r.res = Unit =>
                EqPairs(held[h].var_tags) \subseteq
                    EqPairs(r.self.sites.locs[held[h].name].var_tags)

\* --------------------------------------------------------------- C16
\* C16: interacting values give equal reported classes. After a commit of
\* a site, two of its variables are recorded with equal class values when
\* a tag observed for the one and a tag observed for the other are in the
\* same class of the index at that commit. (The log of a site keeps every
\* observation made on it.)
C16_InteractingReportedEqual ==
    \A h \in 1..Len(held) :
        LET u == update(held[h], value_uf)
            log == held[h].observed_var_tags
        IN  ~u.panic =>
                \A i, j \in 1..Len(log) :
                    SameLeader(u.value_uf, log[i][2], log[j][2]) =>
                        u.site.var_tags[log[i][1]] = u.site.var_tags[log[j][1]]

\* --------------------------------------------------------------- C17
\* Some caller holds a site for id.
IsHeld(id) == \E h \in 1..Len(held) : held[h].name = id

\* C17, as claimed: get_site(id) while a caller holds a site for id
\* returns a new empty site (no pending entry, empty committed map, empty
\* local partition).
C17_Original ==
    \A id \in SiteIds :
        IsHeld(id) => ATI_get_site(Self, id).res = Site_new(id)

\* C17, amended: get_site(id) while a caller holds a site for id and the
\* directory stores none for it (no other holder of a site for id has
\* checked one in since) returns a new empty site and leaves the index and
\* the directory as they were; no get_site touches a site that a caller
\* holds.
C17_DoubleCheckout ==
    /\ [](\A id \in SiteIds :
            (IsHeld(id) /\ id \notin DOMAIN locs) =>
                LET r == ATI_get_site(Self, id)
                IN  r.res = Site_new(id) /\ r.self = Self)
    /\ [][\A id \in SiteIds :
            GetSite(id) => \A k \in 1..Len(held) : held'[k] = held[k]]_vars

\* The same id checked out twice: the first site has pending observations,
\* the second one is empty, and the directory has no site for the id.
C17_Witness ==
    \E h, k \in 1..Len(held) :
        /\ h < k
        /\ held[h].name = held[k].name
        /\ held[h].observed_var_tags # <<>>
        /\ held[k] = Site_new(held[k].name)
        /\ held[k].name \notin DOMAIN locs

\* --------------------------------------------------------------- C18
\* The hazard, from a state in which s1 is the one site checked out for
\* its id and the directory stores none: the id is checked out again, the
\* second site observes obs (nothing, or one pair) and is committed.
OnlyCheckout(h) ==
    /\ held[h].name \notin DOMAIN locs
    /\ \A k \in 1..Len(held) : held[k].name = held[h].name => k = h

SecondObs == {<<>>} \cup {<<<<n, t>>>> : n \in VarNames, t \in Known(value_uf)}

C18_Second(s1, obs) ==
    LET g == ATI_get_site(Self, s1.name)
        s2 == IF obs = <<>> THEN g.res
              ELSE observe_var(g.res, obs[1][1], obs[1][2])
    IN  ATI_update_site(g.self, s2)

\* The variables that only s1 observed are in the committed map of site.
Reflects(site, s1, obs) ==
    \E i \in 1..Len(s1.observed_var_tags) :
        /\ \A j \in 1..Len(obs) : obs[j][1] # s1.observed_var_tags[i][1]
        /\ s1.observed_var_tags[i][1] \in DOMAIN site.var_tags

\* C18, as claimed: after the second site of a doubly checked-out id was
\* committed, the pending observations of the first site are not in the
\* site stored for the id (nor in report, which prints the stored sites),
\* also after the holder of the first site commits it.
C18_Original ==
    \A h \in 1..Len(held), obs \in SecondObs :
        OnlyCheckout(h) =>
            LET r2 == C18_Second(held[h], obs)
                r1 == ATI_update_site(r2.self, held[h])
            IN  /\ r2.res = Unit =>
                    ~Reflects(r2.self.sites.locs[held[h].name], held[h], obs)
                /\ (r2.res = Unit /\ r1.res = Unit) =>
                    ~Reflects(r1.self.sites.locs[held[h].name], held[h], obs)

\* C18, amended: after the second site was committed the site stored for
\* the id holds nothing of the first site's pending observations, and no
\* step other than a commit or checkout for that id changes the stored
\* site; when the holder of the first site commits it, that site replaces
\* the stored one, so its observations are stored and reported and the
\* second site's are lost.
C18_DoubleCheckoutOutcome ==
    /\ [](\A h \in 1..Len(held), obs \in SecondObs :
            OnlyCheckout(h) =>
                LET r2 == C18_Second(held[h], obs)
                IN  r2.res = Unit =>
                      ~Reflects(r2.self.sites.locs[held[h].name], held[h], obs))
    /\ [](\A h \in 1..Len(held) :
            held[h].name \in DOMAIN locs =>
                LET r1 == ATI_update_site(Self, held[h])
                IN  r1.res = Unit =>
                      /\ r1.self.sites.locs[held[h].name] =
                            update(held[h], value_uf).site
                      /\ Sites_report(r1.self.sites) =
                            (Sites_report(Self.sites)
                                \ {Site_report(locs[held[h].name])})
                            \cup {Site_report(update(held[h], value_uf).site)})
    /\ [][\A id \in DOMAIN locs :
            (IsHeld(id) /\ id \in DOMAIN locs'
                /\ \A h \in 1..Len(held) : held[h].name = id => ~UpdateSite(h))
            => locs'[id] = locs[id]]_vars

\* A first site with a pending observation of a variable that the stored
\* site of the same id, committed by the second holder, does not have.
C18_Witness ==
    \E h \in 1..Len(held) :
        /\ held[h].name \in DOMAIN locs
        /\ DOMAIN locs[held[h].name].var_tags # {}
        /\ \E i \in 1..Len(held[h].observed_var_tags) :
              held[h].observed_var_tags[i][1]
                  \notin DOMAIN locs[held[h].name].var_tags

\* --------------------------------------------------------------- C19
\* C19: at most one site instance per id exists at any time. A site id
\* that the directory stores is held by no caller, and no id is held by
\* two callers.
Holders(id) == {h \in 1..Len(held) : held[h].name = id}

C19_OneInstancePerId ==
    \A id \in SiteIds :
        /\ Cardinality(Holders(id)) <= 1
        /\ id \in DOMAIN locs => Holders(id) = {}

\* --------------------------------------------------------------- C20
\* C20: report emits, site by site, exactly the (variable, class) pairs of
\* the committed maps of the sites that the directory stores now, so a
\* checked-out site contributes nothing; and a report step changes neither
\* the directory, nor a site, nor the index.
Triples(rep) == UNION {{<<r.name, l[1], l[2]>> : l \in r.lines} : r \in rep}

StoredTriples ==
    UNION {{<<id, v, locs[id].var_tags[v]>> : v \in DOMAIN locs[id].var_tags} :
              id \in DOMAIN locs}

C20_Report ==
    /\ [](/\ Triples(ATI_report(Self)) = StoredTriples
          /\ {r.name : r \in ATI_report(Self)} = DOMAIN locs)
    /\ [][Report => /\ value_uf' = value_uf
                    /\ locs' = locs
                    /\ held' = held]_vars

\* The directory stores a committed site whose recorded class is not the
\* observed tag, while a caller holds a committed, checked-out site of
\* another id.
C20_Witness ==
    /\ \E id \in DOMAIN locs :
          \E v \in DOMAIN locs[id].var_tags :
              <<v, locs[id].var_tags[v]>> # locs[id].observed_var_tags[1]
    /\ \E h \in 1..Len(held) :
          /\ DOMAIN held[h].var_tags # {}
          /\ held[h].name \notin DOMAIN locs

\* --------------------------------------------------------------- C21
\* An invocation that holds site s1 (its one checkout, all its observed
\* tags minted) calls an inner invocation, which does get_site(id2),
\* observes (n, t) and commits; then the outer one commits s1.
AllPendingKnown(site) ==
    \A i \in 1..Len(site.observed_var_tags) :
        site.observed_var_tags[i][2] \in Known(value_uf)

C21_Inner(id2, n, t) ==
    LET g == ATI_get_site(Self, id2)
    IN  ATI_update_site(g.self, observe_var(g.res, n, t))

C21_Outer(s1, id2, n, t) == ATI_update_site(C21_Inner(id2, n, t).self, s1)

\* C21: nested and recursive invocations lose nothing. Once the inner and
\* the outer invocation have returned, the variable the inner one observed
\* is in the committed map stored for its id and every variable the outer
\* one observed is in the committed map stored for its id, whether the two
\* ids differ or are the same.
C21_NestedLoseNothing ==
    \A h \in 1..Len(held), id2 \in SiteIds, n \in VarNames,
       t \in Known(value_uf) :
        (OnlyCheckout(h) /\ AllPendingKnown(held[h])) =>
            LET r2 == C21_Inner(id2, n, t)
                r1 == C21_Outer(held[h], id2, n, t)
                s1 == held[h]
            IN  (r2.res = Unit /\ r1.res = Unit) =>
                    /\ n \in DOMAIN r1.self.sites.locs[id2].var_tags
                    /\ \A i \in 1..Len(s1.observed_var_tags) :
                          s1.observed_var_tags[i][1]
                              \in DOMAIN r1.self.sites.locs[s1.name].var_tags

\* --------------------------------------------------------------- C22
\* Calls of doubled_func that have returned, and the tag a site observed
\* last under a name.
Returned ==
    Cardinality({i \in 1..(pc - 1) : /\ Prog[i].op = "update_site"
                                     /\ Prog[i].id = "doubled_func"})

LastObs(site, name) ==
    LET log == site.observed_var_tags
        last == CHOOSE i \in 1..Len(log) :
                   /\ log[i][1] = name
                   /\ \A j \in (i + 1)..Len(log) : log[j][1] # name
    IN  log[last][2]

\* C22: the two-call merge scenario of main. No statement panics; once
\* the second call of doubled_func has returned, report shows x and result
\* of site doubled_func with the same class value; the third call, with
\* arguments minted by untracked, puts a3 and b3 into the index classes of
\* its a, result and b, test, and the map reported for main after its
\* commit has entries for a1, b1, a2, b2 and iterations only.
C22_TwoCallMerge ==
    /\ ~panicked
    /\ (Returned >= 2 /\ "doubled_func" \in DOMAIN locs) =>
          \E c \in Tags \cup Known(value_uf) :
              {<<"doubled_func", "x", c>>, <<"doubled_func", "result", c>>}
                  \subseteq Triples(ATI_report(Self))
    /\ (Returned = 3 /\ "doubled_func" \in DOMAIN locs) =>
          LET df == locs["doubled_func"]
              a3 == Tag_new(MainAddr["a3"])
              b3 == Tag_new(MainAddr["b3"])
          IN  /\ SameLeader(value_uf, a3, LastObs(df, "a"))
              /\ SameLeader(value_uf, a3, LastObs(df, "result"))
              /\ SameLeader(value_uf, b3, LastObs(df, "b"))
              /\ SameLeader(value_uf, b3, LastObs(df, "test"))
    /\ pc > Len(Prog) =>
          {t[2] : t \in {u \in Triples(ATI_report(Self)) : u[1] = "main"}}
              = {"a1", "b1", "a2", "b2", "iterations"}

\* main has run to its end, and a local of doubled_func had one slot in
\* one call and another slot in a later call.
C22_Witness ==
    /\ pc > Len(Prog)
    /\ ~panicked
    /\ \E i, j \in 1..Len(locs["doubled_func"].observed_var_tags) :
          LET log == locs["doubled_func"].observed_var_tags
          IN  log[i][1] = "result" /\ log[j][1] = "result" /\ log[i][2] # log[j][2]

\* ---------------------------------------------------------------------
\* C23
\* ---------------------------------------------------------------------

\* The entries of ids other than id are the same in directories a and b.
OthersSame(a, b, id) ==
    /\ (DOMAIN a.locs) \ {id} = (DOMAIN b.locs) \ {id}
    /\ \A o \in (DOMAIN a.locs) \ {id} : a.locs[o] = b.locs[o]

\* stash of site into directory sites, and the extract that follows it.
C23_StashThenExtract(sites, site) ==
    LET s1 == stash(sites, site)
        e  == extract(s1, site.name)
    IN  /\ site.name \in DOMAIN s1.locs
        /\ s1.locs[site.name] = site
        /\ OthersSame(sites, s1, site.name)
        /\ e.res = site
        /\ e.res.observed_var_tags = site.observed_var_tags
        /\ e.res.var_tags = site.var_tags
        /\ e.res.type_uf = site.type_uf
        /\ site.name \notin DOMAIN e.sites.locs
        /\ OthersSame(s1, e.sites, site.name)

\* extract of id from directory sites.
C23_Extract(sites, id) ==
    LET e == extract(sites, id)
    IN  /\ OthersSame(sites, e.sites, id)
        /\ id \notin DOMAIN e.sites.locs
        /\ id \notin DOMAIN sites.locs =>
              /\ e.sites = sites
              /\ e.res.name = id
              /\ e.res.observed_var_tags = EmptyVec
              /\ e.res.var_tags = EmptyMap
              /\ e.res.type_uf = UnionFind_new
        /\ id \in DOMAIN sites.locs => e.res = sites.locs[id]

C24_CommittedValuesAreLeaders ==
    \A h \in 1..Len(held) :
        LET u == update(held[h], value_uf)
            m == u.site.var_tags
        IN  ~u.panic =>
                /\ \A v \in DOMAIN m :
                      /\ find(u.value_uf, m[v]).res = Some(m[v])
                      /\ find(u.site.type_uf, m[v]).res = Some(m[v])
                /\ \A v, w \in DOMAIN m :
                      (m[v] = m[w]) <=> SameLeader(u.site.type_uf, m[v], m[w])

\* --------------------------------------------------------------- C25
\* C25: a commit does not fail on well-formed input. In every state reached
\* by minting, observing, recording interactions, checking out and
\* committing, the commit of a checked-out site whose pending tags are all
\* known to the index completes: no find and no union_tags in it gives
\* None.
C25_CommitCompletes ==
    \A h \in 1..Len(held) :
        AllPendingKnown(held[h]) => ~update(held[h], value_uf).panic

\* --------------------------------------------------------------- C26
\* The structure of a UnionFind: the two tag/index tables are inverse
\* bijections, the three vectors have one length, every parent is an index
\* of the structure and following parent from any index ends in a root
\* (no cycle but the root's own), and a non-root has a smaller rank than
\* its parent.
WellFormed(uf) ==
    LET n == VecLen(uf.parent)
    IN  /\ VecLen(uf.rank) = n
        /\ VecLen(uf.index_to_set) = n
        /\ DOMAIN uf.parent = 0..(n - 1)
        /\ DOMAIN uf.rank = 0..(n - 1)
        /\ DOMAIN uf.index_to_set = 0..(n - 1)
        /\ \A t \in DOMAIN uf.id_to_index :
              /\ uf.id_to_index[t] \in 0..(n - 1)
              /\ uf.index_to_set[uf.id_to_index[t]] = t
        /\ \A i \in 0..(n - 1) :
              /\ uf.index_to_set[i] \in DOMAIN uf.id_to_index
              /\ uf.id_to_index[uf.index_to_set[i]] = i
              /\ uf.parent[i] \in 0..(n - 1)
              /\ uf.parent[Root(uf, i)] = Root(uf, i)
              /\ uf.parent[i] # i => uf.rank[i] < uf.rank[uf.parent[i]]

NumTags(uf) == Cardinality(Known(uf))
NumClasses(uf) == Cardinality(Partition(uf))

\* C26: every UnionFind the public methods can build is well formed, every
\* method leaves it well formed, and the number of classes is the number of
\* introduced tags less the number of unions that merged two different
\* classes: a new tag adds one class, a union of two known tags of
\* different classes takes one away, and nothing else changes the number.
C26_StructuralInvariant ==
    /\ WellFormed(value_uf)
    /\ \A t \in Tags :
          LET i == introduce_tag(value_uf, t).uf
              f == find(value_uf, t).uf
          IN  /\ WellFormed(i)
              /\ WellFormed(f)
              /\ NumTags(f) = NumTags(value_uf)
              /\ NumClasses(f) = NumClasses(value_uf)
              /\ IF t \in Known(value_uf)
                 THEN NumTags(i) = NumTags(value_uf)
                      /\ NumClasses(i) = NumClasses(value_uf)
                 ELSE NumTags(i) = NumTags(value_uf) + 1
                      /\ NumClasses(i) = NumClasses(value_uf) + 1
    /\ \A a, b \in Tags :
          LET u == union_tags(value_uf, a, b).uf
          IN  /\ WellFormed(u)
              /\ NumTags(u) = NumTags(value_uf)
              /\ IF {a, b} \subseteq Known(value_uf) /\ ~SameLeader(value_uf, a, b)
                 THEN NumClasses(u) = NumClasses(value_uf) - 1
                 ELSE NumClasses(u) = NumClasses(value_uf)

\* An index of four tags in two classes, one of them built by a union of
\* two roots of equal rank and compressed since: it has a non-root.
C26_Witness ==
    /\ NumTags(value_uf) >= 4
    /\ NumClasses(value_uf) = NumTags(value_uf) - 2
    /\ \E i \in DOMAIN value_uf.parent : value_uf.parent[i] # i
    /\ \E i \in DOMAIN value_uf.rank : value_uf.rank[i] >= 1

\* --------------------------------------------------------------- C27
\* Tags the log of site observed for variable v.
ObservedFor(site, v) ==
    {site.observed_var_tags[i][2] :
        i \in {k \in 1..Len(site.observed_var_tags) :
                  site.observed_var_tags[k][1] = v}}

\* One step of a chain: two tags in one class of index uf, or two tags the
\* site observed for one variable.
ChainStep(site, uf, a, b) ==
    \/ SameLeader(uf, a, b)
    \/ \E v \in VarNames : {a, b} \subseteq ObservedFor(site, v)

\* Tags a chain of at most n steps reaches from the tags in S.
RECURSIVE ChainReach(_, _, _, _)
ChainReach(site, uf, S, n) ==
    IF n = 0
    THEN S
    ELSE ChainReach(site, uf,
                    S \cup {b \in Tags : \E a \in S : ChainStep(site, uf, a, b)},
                    n - 1)

\* Variables of site with one class value have observed tags that a chain
\* links; index uf is the index at the time of reading.
NoSpuriousMerge(site, uf) ==
    \A v, w \in DOMAIN site.var_tags :
        site.var_tags[v] = site.var_tags[w] =>
            ChainReach(site, uf, ObservedFor(site, v), Cardinality(Tags))
                \cap ObservedFor(site, w) # {}

\* Every variable of the log once, every tag once.
OnceEach(site) ==
    \A i, j \in 1..Len(site.observed_var_tags) :
        i # j => /\ site.observed_var_tags[i][1] # site.observed_var_tags[j][1]
                 /\ site.observed_var_tags[i][2] # site.observed_var_tags[j][2]

\* C27: no spurious merges. In every reachable state, two variables that a
\* site's committed map (as stored, and as a completing commit of a
\* checked-out site leaves it) gives the same class value have observed
\* tags linked by a chain whose steps are "one class of the index" or
\* "observed for one variable at the site"; and while no two tags are
\* merged in the index, a site whose log has each variable and each tag
\* once gets pairwise different class values.
C27_NoSpuriousMerges ==
    /\ \A id \in DOMAIN locs : NoSpuriousMerge(locs[id], value_uf)
    /\ \A h \in 1..Len(held) :
          LET u == update(held[h], value_uf)
              m == u.site.var_tags
          IN  /\ NoSpuriousMerge(held[h], value_uf)
              /\ ~u.panic =>
                    /\ NoSpuriousMerge(u.site, u.value_uf)
                    /\ (NumClasses(value_uf) = NumTags(value_uf) /\ OnceEach(held[h])) =>
                          \A v, w \in DOMAIN m : v # w => m[v] # m[w]

\* A committed site with two variables of one class value that no single
\* tag links: x and y were observed with different tags, merged in the
\* index; and a third tag is alone in its class.
C27_Witness ==
    \E id \in DOMAIN locs :
        /\ {"x", "y"} \subseteq DOMAIN locs[id].var_tags
        /\ locs[id].var_tags["x"] = locs[id].var_tags["y"]
        /\ ObservedFor(locs[id], "x") \cap ObservedFor(locs[id], "y") = {}
        /\ NumClasses(value_uf) >= 2

====
